---- MODULE Spec2Model ----
(***************************************************************************)
(* The Settings panel (src/src/Settings.tsx) as a state machine.           *)
(*                                                                         *)
(* State: the component's React state (activeSection, settings,            *)
(* appDirectory), the theme of the theme provider, the toasts emitted, the *)
(* persisted settings record of the store behind loadSettings/saveSettings,*)
(* and the position of every asynchronous function in flight: the load     *)
(* effect, each invocation of handleChangeCollectionPath and each          *)
(* invocation of handleFolderOpen.  An await is a point where the function *)
(* is suspended; the step that resumes it runs the code up to the next     *)
(* await or to the end of the function.                                    *)
(*                                                                         *)
(* An optional value (T | null) is a sequence of length at most one:       *)
(* <<>> is null and <<r>> is the value r.                                  *)
(***************************************************************************)
EXTENDS Integers, Sequences, FiniteSets, TLC

\* ---------------------------------------------------------------- bounds
\* Handler calls (handleChangeCollectionPath, handleFolderOpen,
\* handleThemeChange) the user makes while the panel is open.
MaxCalls == 2

Picks == 1..MaxCalls
Opens == 1..MaxCalls

\* ------------------------------------------------------------ value sets
None == <<>>
Some(r) == <<r>>

SectionNames == {"Themes", "Connections", "Collections", "About", "Test"}
ThemeValues == {"light", "dark", "system"}

Record(o, f, c) == [os |-> o, firstStartup |-> f, collectionPath |-> c]

\* Records the profile may hold when the panel is opened.
StoredRecords ==
    { Record("Linux", "2024-01-01T00:00:00Z", "/home/u/.app/collections"),
      Record("Linux", "2024-01-01T00:00:00Z", "") }

AppDataDir == "/home/u/.app"

\* What dialog.open({ directory: true }) may resolve to:
\* null, a string (possibly empty), or an array of strings.
PickedPaths == {"/home/u/Documents/col2", "/home/u/Documents/col3"}
DialogResults ==
    {[type |-> "null", value |-> ""]} \cup
    {[type |-> "string", value |-> p] : p \in PickedPaths \cup {""}} \cup
    {[type |-> "array", value |-> "/home/u/Documents/col2"]}
Unset == [type |-> "undefined", value |-> ""]


\* ----------------------------------------------------------------- state
VARIABLES
    activeSection,   \* useState("Themes")
    settings,        \* useState(null): the in-memory record, optional
    appDirectory,    \* useState("")
    theme,           \* useTheme().theme
    toasts,          \* the toast() calls made so far, by the call making them
    persisted,      \* the store's record
    loadPc,          \* position of the load effect
    loadedSettings,  \* the effect's const loadedSettings, optional
    uncaught,        \* rejections no handler caught (unhandled rejections)
    pickPc,          \* position of each handleChangeCollectionPath call
    pickClosure,     \* the `settings` each call closed over, optional
    selected,        \* each call's const selected
    updatedSettings, \* each call's const updatedSettings, optional
    saveCalls,       \* each call's number of saveSettings calls
    saveError,       \* the error a call's saveSettings rejected with
    openPc,          \* position of each handleFolderOpen call
    openPath,        \* each call's path argument
    openResult       \* what the host's open_folder answered

vars == <<activeSection, settings, appDirectory, theme, toasts, persisted,
          loadPc, loadedSettings, uncaught, pickPc, pickClosure, selected,
          updatedSettings, saveCalls, saveError, openPc, openPath, openResult>>

uiVars == <<activeSection, settings, appDirectory, theme>>
loadVars == <<loadPc, loadedSettings>>
pickVars == <<pickPc, pickClosure, selected, updatedSettings, saveCalls, saveError>>
openVars == <<openPc, openPath, openResult>>

\* ------------------------------------------------------------- helpers
\* The callers of toast(): each call of a handler.
ByPick(i) == <<"pick", i>>
ByOpen(k) == <<"open", k>>
ByTheme == <<"theme", 0>>
Callers == {ByPick(i) : i \in Picks} \cup {ByOpen(k) : k \in Opens} \cup {ByTheme}

\* toast({ title, description, variant })
Toast(title, destructive) == [title |-> title, destructive |-> destructive]

\* The toasts after the caller `by` has emitted t.
Emit(by, t) == [toasts EXCEPT ![by] = Append(@, t)]

\* Variant: `selected !== null` in place of the truthiness test.
Truthy_NotNull(v) == v.type # "null"

\* JavaScript truthiness of a dialog result: null and "" are falsy,
\* a non-empty string and any array are truthy.
Truthy(v) ==
    CASE v.type = "null" -> FALSE
      [] v.type = "string" -> v.value # ""
      [] OTHER -> TRUE

\* typeof v === "string"
TypeofString(v) == v.type = "string"

\* Variant: the record is built anew instead of spread, and firstStartup
\* is left out.
SpreadWithCollectionPath_NoSpread(s, p) ==
    [os |-> s.os, firstStartup |-> "", collectionPath |-> p]

\* { ...s, collectionPath: p }
SpreadWithCollectionPath(s, p) ==
    [os |-> s.os, firstStartup |-> s.firstStartup, collectionPath |-> p]

\* Variant: the if statement tests `settings` only.
PickAccepted_SettingsOnly(v, closure) == closure # None

\* The condition of the if statement in handleChangeCollectionPath.
PickAccepted(v, closure) == Truthy(v) /\ TypeofString(v) /\ closure # None

\* Handler calls made so far.
Calls ==
    Cardinality({i \in Picks : pickPc[i] # "idle"})
    + Cardinality({k \in Opens : openPc[k] # "idle"})
    + Len(toasts[ByTheme])

\* ------------------------------------------------------------------ Init
Init ==
    /\ activeSection = "Themes"
    /\ settings = None
    /\ appDirectory = ""
    /\ theme = "system"
    /\ toasts = [c \in Callers |-> <<>>]
    /\ persisted \in StoredRecords
    /\ loadPc = "loadSettings"
    /\ loadedSettings = None
    /\ uncaught = 0
    /\ pickPc = [i \in Picks |-> "idle"]
    /\ pickClosure = [i \in Picks |-> None]
    /\ selected = [i \in Picks |-> Unset]
    /\ updatedSettings = [i \in Picks |-> None]
    /\ saveCalls = [i \in Picks |-> 0]
    /\ saveError = [i \in Picks |-> ""]
    /\ openPc = [k \in Opens |-> "idle"]
    /\ openPath = [k \in Opens |-> ""]
    /\ openResult = [k \in Opens |-> ""]

\* ------------------------------------------------------------- sidebar
\* onClick={() => setActiveSection(name)}
SetActiveSection(name) ==
    /\ activeSection' = name
    /\ UNCHANGED <<settings, appDirectory, theme, toasts, persisted,
                   uncaught>>
    /\ UNCHANGED <<loadVars, pickVars, openVars>>

\* --------------------------------------------------------- load effect
\* load(): the persisted record.
LoadSettingsResult == persisted

\* await loadSettings() resolves: setSettings(loadedSettings), then the
\* effect calls tauriPath.appDataDir() and is suspended on it.
LoadResolved ==
    /\ loadPc = "loadSettings"
    /\ loadedSettings' = Some(LoadSettingsResult)
    /\ settings' = Some(LoadSettingsResult)
    /\ loadPc' = "appDataDir"
    /\ UNCHANGED <<activeSection, appDirectory, theme, toasts, persisted,
                   uncaught>>
    /\ UNCHANGED <<pickVars, openVars>>

\* await loadSettings() rejects (StorageUnavailable): the async function of
\* the effect has no try/catch, so its promise rejects with no handler.
LoadRejected ==
    /\ loadPc = "loadSettings"
    /\ loadPc' = "failed"
    /\ uncaught' = uncaught + 1
    /\ UNCHANGED <<uiVars, toasts, persisted, loadedSettings>>
    /\ UNCHANGED <<pickVars, openVars>>

\* await tauriPath.appDataDir() resolves: setAppDirectory(...).
AppDirResolved ==
    /\ loadPc = "appDataDir"
    /\ appDirectory' = AppDataDir
    /\ loadPc' = "done"
    /\ UNCHANGED <<activeSection, settings, theme, toasts, persisted,
                   loadedSettings, uncaught>>
    /\ UNCHANGED <<pickVars, openVars>>

\* await tauriPath.appDataDir() rejects: uncaught as well.
AppDirRejected ==
    /\ loadPc = "appDataDir"
    /\ loadPc' = "failed"
    /\ uncaught' = uncaught + 1
    /\ UNCHANGED <<uiVars, toasts, persisted, loadedSettings>>
    /\ UNCHANGED <<pickVars, openVars>>

\* ---------------------------------------------------------------- theme
\* The Select is rendered in the Themes section only.
HandleThemeChange(value) ==
    /\ activeSection = "Themes"
    /\ Calls < MaxCalls
    /\ theme' = value
    /\ toasts' = Emit(ByTheme, Toast("Theme Updated", FALSE))
    /\ UNCHANGED <<activeSection, settings, appDirectory, persisted,
                   uncaught>>
    /\ UNCHANGED <<loadVars, pickVars, openVars>>

\* ------------------------------------------- handleChangeCollectionPath
\* Calls are numbered in the order they are started.
NextPick(i) == pickPc[i] = "idle" /\ \A j \in Picks : j < i => pickPc[j] # "idle"

\* onClick={handleChangeCollectionPath}; the button is rendered in the
\* Collections section.  The call closes over the settings of the render it
\* was created in, calls dialog.open and is suspended on it.
ClickChooseFolder(i) ==
    /\ activeSection = "Collections"
    /\ Calls < MaxCalls
    /\ NextPick(i)
    /\ pickClosure' = [pickClosure EXCEPT ![i] = settings]
    /\ pickPc' = [pickPc EXCEPT ![i] = "dialog"]
    /\ UNCHANGED <<uiVars, toasts, persisted, uncaught,
                   selected, updatedSettings, saveCalls, saveError>>
    /\ UNCHANGED <<loadVars, openVars>>

\* Variant: optimistic update, setSettings(updatedSettings) before the
\* await of saveSettings.
DialogResolved_Optimistic(i, v) ==
    /\ pickPc[i] = "dialog"
    /\ selected' = [selected EXCEPT ![i] = v]
    /\ IF PickAccepted(v, pickClosure[i])
       THEN /\ updatedSettings' = [updatedSettings EXCEPT ![i] =
                   Some(SpreadWithCollectionPath(pickClosure[i][1], v.value))]
            /\ settings' = Some(SpreadWithCollectionPath(pickClosure[i][1], v.value))
            /\ saveCalls' = [saveCalls EXCEPT ![i] = @ + 1]
            /\ pickPc' = [pickPc EXCEPT ![i] = "saveSettings"]
       ELSE /\ pickPc' = [pickPc EXCEPT ![i] = "done"]
            /\ UNCHANGED <<settings, updatedSettings, saveCalls>>
    /\ UNCHANGED <<activeSection, appDirectory, theme, toasts, persisted,
                   uncaught, pickClosure, saveError>>
    /\ UNCHANGED <<loadVars, openVars>>

\* Variant: the call reads the settings current when the picker returns
\* (as through a ref) instead of the ones it closed over.
DialogResolved_ReadsLatest(i, v) ==
    /\ pickPc[i] = "dialog"
    /\ selected' = [selected EXCEPT ![i] = v]
    /\ IF PickAccepted(v, settings)
       THEN /\ updatedSettings' = [updatedSettings EXCEPT ![i] =
                   Some(SpreadWithCollectionPath(settings[1], v.value))]
            /\ saveCalls' = [saveCalls EXCEPT ![i] = @ + 1]
            /\ pickPc' = [pickPc EXCEPT ![i] = "saveSettings"]
       ELSE /\ pickPc' = [pickPc EXCEPT ![i] = "done"]
            /\ UNCHANGED <<updatedSettings, saveCalls>>
    /\ UNCHANGED <<uiVars, toasts, persisted, uncaught, pickClosure, saveError>>
    /\ UNCHANGED <<loadVars, openVars>>

\* await dialog.open(...) resolves to v: the if statement, and inside it the
\* spread and the call of saveSettings, on which the call is suspended.
DialogResolved(i, v) ==
    /\ pickPc[i] = "dialog"
    /\ selected' = [selected EXCEPT ![i] = v]
    /\ IF PickAccepted(v, pickClosure[i])
       THEN /\ updatedSettings' = [updatedSettings EXCEPT ![i] =
                   Some(SpreadWithCollectionPath(pickClosure[i][1], v.value))]
            /\ saveCalls' = [saveCalls EXCEPT ![i] = @ + 1]
            /\ pickPc' = [pickPc EXCEPT ![i] = "saveSettings"]
       ELSE /\ pickPc' = [pickPc EXCEPT ![i] = "done"]
            /\ UNCHANGED <<updatedSettings, saveCalls>>
    /\ UNCHANGED <<uiVars, toasts, persisted, uncaught,
                   pickClosure, saveError>>
    /\ UNCHANGED <<loadVars, openVars>>

\* await dialog.open(...) rejects: the catch block.
DialogRejected(i) ==
    /\ pickPc[i] = "dialog"
    /\ pickPc' = [pickPc EXCEPT ![i] = "done"]
    /\ toasts' = Emit(ByPick(i), Toast("Error", TRUE))
    /\ UNCHANGED <<uiVars, persisted, uncaught,
                   pickClosure, selected, updatedSettings, saveCalls, saveError>>
    /\ UNCHANGED <<loadVars, openVars>>

\* save(record): the failures the store may answer with (spec 4.1).
SaveFailures(r) ==
    {"StorageUnavailable"} \cup
    (IF r.collectionPath = "" THEN {"ValidationError"} ELSE {})

\* The store applies the save of call i: the record is overwritten
\* atomically and the promise of saveSettings resolves.
StoreSaveOk(i) ==
    /\ pickPc[i] = "saveSettings"
    /\ updatedSettings[i][1].collectionPath # ""
    /\ persisted' = updatedSettings[i][1]
    /\ pickPc' = [pickPc EXCEPT ![i] = "saveResolved"]
    /\ UNCHANGED <<uiVars, toasts, uncaught,
                   pickClosure, selected, updatedSettings, saveCalls, saveError>>
    /\ UNCHANGED <<loadVars, openVars>>

\* The store refuses the save of call i: the promise rejects.
StoreSaveFail(i) ==
    /\ pickPc[i] = "saveSettings"
    /\ \E e \in SaveFailures(updatedSettings[i][1]) :
           saveError' = [saveError EXCEPT ![i] = e]
    /\ pickPc' = [pickPc EXCEPT ![i] = "saveRejected"]
    /\ UNCHANGED <<uiVars, toasts, persisted, uncaught,
                   pickClosure, selected, updatedSettings, saveCalls>>
    /\ UNCHANGED <<loadVars, openVars>>

\* Variant: setSettings(settings) in place of setSettings(updatedSettings).
SaveResolved_SetsOld(i) ==
    /\ pickPc[i] = "saveResolved"
    /\ settings' = pickClosure[i]
    /\ toasts' = Emit(ByPick(i), Toast("Collection Updated", FALSE))
    /\ pickPc' = [pickPc EXCEPT ![i] = "done"]
    /\ UNCHANGED <<activeSection, appDirectory, theme, persisted,
                   uncaught, pickClosure, selected,
                   updatedSettings, saveCalls, saveError>>
    /\ UNCHANGED <<loadVars, openVars>>

\* The call resumes after await saveSettings(updatedSettings):
\* setSettings(updatedSettings) and the "Collection Updated" toast.
SaveResolved(i) ==
    /\ pickPc[i] = "saveResolved"
    /\ settings' = updatedSettings[i]
    /\ toasts' = Emit(ByPick(i), Toast("Collection Updated", FALSE))
    /\ pickPc' = [pickPc EXCEPT ![i] = "done"]
    /\ UNCHANGED <<activeSection, appDirectory, theme, persisted,
                   uncaught, pickClosure, selected,
                   updatedSettings, saveCalls, saveError>>
    /\ UNCHANGED <<loadVars, openVars>>

\* Variant: the catch block shows the path that failed to save.
SaveRejected_ShowsNew(i) ==
    /\ pickPc[i] = "saveRejected"
    /\ settings' = updatedSettings[i]
    /\ toasts' = Emit(ByPick(i), Toast("Error", TRUE))
    /\ pickPc' = [pickPc EXCEPT ![i] = "done"]
    /\ UNCHANGED <<activeSection, appDirectory, theme, persisted, uncaught,
                   pickClosure, selected, updatedSettings, saveCalls, saveError>>
    /\ UNCHANGED <<loadVars, openVars>>

\* The call resumes in the catch block after saveSettings rejected.
SaveRejected(i) ==
    /\ pickPc[i] = "saveRejected"
    /\ toasts' = Emit(ByPick(i), Toast("Error", TRUE))
    /\ pickPc' = [pickPc EXCEPT ![i] = "done"]
    /\ UNCHANGED <<uiVars, persisted, uncaught,
                   pickClosure, selected, updatedSettings, saveCalls, saveError>>
    /\ UNCHANGED <<loadVars, openVars>>

\* ----------------------------------------------------- handleFolderOpen
NextOpen(k) == openPc[k] = "idle" /\ \A j \in Opens : j < k => openPc[j] # "idle"

\* The paths the About section offers a button for: DirectoryInfo is
\* rendered for settings.collectionPath and for appDirectory, and only once
\* settings is loaded.
OfferedPaths ==
    IF activeSection = "About" /\ settings # None
    THEN {settings[1].collectionPath, appDirectory}
    ELSE {}

\* onClick={() => onOpen(path)}: handleFolderOpen calls
\* invoke("open_folder", { path }) and is suspended on it.
ClickOpenFolder(k, path) ==
    /\ path \in OfferedPaths
    /\ Calls < MaxCalls
    /\ NextOpen(k)
    /\ openPath' = [openPath EXCEPT ![k] = path]
    /\ openPc' = [openPc EXCEPT ![k] = "invoke"]
    /\ UNCHANGED <<uiVars, toasts, persisted, uncaught,
                   openResult>>
    /\ UNCHANGED <<loadVars, pickVars>>

\* openInFileManager(path): what the host may answer (spec 6).
\* Whether the directory still exists is the host's to say.
OpenOutcomes(path) ==
    IF path = ""
    THEN {"PathNotFound"}
    ELSE {"ok", "PathNotFound", "PermissionDenied"}

\* The host answers the open_folder command of call k.
HostOpenFolder(k) ==
    /\ openPc[k] = "invoke"
    /\ \E r \in OpenOutcomes(openPath[k]) :
           /\ openResult' = [openResult EXCEPT ![k] = r]
           /\ openPc' = [openPc EXCEPT ![k] =
                            IF r = "ok" THEN "invokeResolved" ELSE "invokeRejected"]
    /\ UNCHANGED <<uiVars, toasts, persisted, uncaught,
                   openPath>>
    /\ UNCHANGED <<loadVars, pickVars>>

\* The call resumes after await invoke(...): the "Success" toast.
OpenResolved(k) ==
    /\ openPc[k] = "invokeResolved"
    /\ toasts' = Emit(ByOpen(k), Toast("Success", FALSE))
    /\ openPc' = [openPc EXCEPT ![k] = "done"]
    /\ UNCHANGED <<uiVars, persisted, uncaught,
                   openPath, openResult>>
    /\ UNCHANGED <<loadVars, pickVars>>

\* Variant: the catch block logs the error and emits no toast.
OpenRejected_Silent(k) ==
    /\ openPc[k] = "invokeRejected"
    /\ openPc' = [openPc EXCEPT ![k] = "done"]
    /\ UNCHANGED <<uiVars, toasts, persisted, uncaught, openPath, openResult>>
    /\ UNCHANGED <<loadVars, pickVars>>

\* The call resumes in the catch block: the "Error" toast.
OpenRejected(k) ==
    /\ openPc[k] = "invokeRejected"
    /\ toasts' = Emit(ByOpen(k), Toast("Error", TRUE))
    /\ openPc' = [openPc EXCEPT ![k] = "done"]
    /\ UNCHANGED <<uiVars, persisted, uncaught,
                   openPath, openResult>>
    /\ UNCHANGED <<loadVars, pickVars>>

\* ------------------------------------------------------------------ Next
Next ==
    \/ \E name \in SectionNames : SetActiveSection(name)
    \/ LoadResolved
    \/ LoadRejected
    \/ AppDirResolved
    \/ AppDirRejected
    \/ \E value \in ThemeValues : HandleThemeChange(value)
    \/ \E i \in Picks : ClickChooseFolder(i)
    \/ \E i \in Picks, v \in DialogResults : DialogResolved(i, v)
    \/ \E i \in Picks : DialogRejected(i)
    \/ \E i \in Picks : StoreSaveOk(i)
    \/ \E i \in Picks : StoreSaveFail(i)
    \/ \E i \in Picks : SaveResolved(i)
    \/ \E i \in Picks : SaveRejected(i)
    \/ \E k \in Opens, path \in {settings[j].collectionPath : j \in DOMAIN settings}
                               \cup {appDirectory} : ClickOpenFolder(k, path)
    \/ \E k \in Opens : HostOpenFolder(k)
    \/ \E k \in Opens : OpenResolved(k)
    \/ \E k \in Opens : OpenRejected(k)

Spec == Init /\ [][Next]_vars

\* The variables keep their shapes.
TypeOK ==
    /\ activeSection \in SectionNames
    /\ theme \in ThemeValues
    /\ Len(settings) <= 1
    /\ persisted.collectionPath \in PickedPaths \cup
                                    {r.collectionPath : r \in StoredRecords}
    /\ uncaught \in 0..1
    /\ \A i \in Picks : pickPc[i] \in {"idle", "dialog", "saveSettings",
                            "saveResolved", "saveRejected", "done"}
    /\ \A k \in Opens : openPc[k] \in {"idle", "invoke", "invokeResolved",
                            "invokeRejected", "done"}

\* ---------------------------------------------------------------- claims
ErrorToast == Toast("Error", TRUE)
UpdatedToast == Toast("Collection Updated", FALSE)
SuccessToast == Toast("Success", FALSE)

\* Call i of handleChangeCollectionPath takes a step.
PickSteps(i) == pickPc'[i] # pickPc[i]
\* Call k of handleFolderOpen takes a step.
OpenSteps(k) == openPc'[k] # openPc[k]

\* No asynchronous function is in flight.
Quiescent ==
    /\ loadPc \in {"done", "failed"}
    /\ \A i \in Picks : pickPc[i] \in {"idle", "done"}
    /\ \A k \in Opens : openPc[k] \in {"idle", "done"}

\* C1: when a call of handleChangeCollectionPath made with a loaded record
\* gets a non-empty string p from the picker, the record it passes to
\* saveSettings has collectionPath = p and the os and firstStartup of the
\* record before the pick; when the save succeeds, the in-memory record it
\* sets has the same three values.
C1_PickKeepsOsAndFirstStartup ==
    [][\A i \in Picks :
        /\ (pickPc[i] = "dialog" /\ pickPc'[i] = "saveSettings") =>
              /\ updatedSettings'[i] # None
              /\ updatedSettings'[i][1].collectionPath = selected'[i].value
              /\ updatedSettings'[i][1].os = pickClosure[i][1].os
              /\ updatedSettings'[i][1].firstStartup = pickClosure[i][1].firstStartup
        /\ (pickPc[i] = "saveResolved" /\ pickPc'[i] = "done") =>
              /\ settings' # None
              /\ settings'[1].collectionPath = selected[i].value
              /\ settings'[1].os = pickClosure[i][1].os
              /\ settings'[1].firstStartup = pickClosure[i][1].firstStartup
              /\ persisted'.os = pickClosure[i][1].os
              /\ persisted'.firstStartup = pickClosure[i][1].firstStartup
      ]_vars

\* The example of the spec: col2 picked, saved and shown, os and
\* firstStartup as loaded.
C1_Witness ==
    \E i \in Picks :
        /\ pickPc[i] = "done"
        /\ toasts[ByPick(i)] = <<UpdatedToast>>
        /\ pickClosure[i] =
              Some(Record("Linux", "2024-01-01T00:00:00Z", "/home/u/.app/collections"))
        /\ settings =
              Some(Record("Linux", "2024-01-01T00:00:00Z", "/home/u/Documents/col2"))

\* C2: os and firstStartup are write-once: once the initial load has
\* returned, the in-memory record and the persisted record both carry the os
\* and the firstStartup the load returned, whatever the user does.
C2_OsAndFirstStartupWriteOnce ==
    loadedSettings # None =>
        /\ settings # None
        /\ settings[1].os = loadedSettings[1].os
        /\ settings[1].firstStartup = loadedSettings[1].firstStartup
        /\ persisted.os = loadedSettings[1].os
        /\ persisted.firstStartup = loadedSettings[1].firstStartup

\* A folder was picked, saved and shown and the theme was changed.
C2_Witness ==
    /\ loadedSettings # None
    /\ settings # None
    /\ settings[1].collectionPath \in PickedPaths
    /\ persisted.collectionPath \in PickedPaths
    /\ Len(toasts[ByTheme]) > 0

\* C3: when the picker returns none, the call ends there: saveSettings is
\* not called, the in-memory and the persisted record are unchanged and no
\* notification is emitted.
C3_CancelledPickChangesNothing ==
    [][\A i \in Picks :
        /\ (pickPc[i] = "dialog" /\ selected'[i].type = "null") =>
              /\ pickPc'[i] = "done"
              /\ settings' = settings
              /\ persisted' = persisted
              /\ toasts' = toasts
              /\ updatedSettings'[i] = None
        /\ (selected'[i].type = "null") =>
              /\ saveCalls'[i] = 0
              /\ toasts'[ByPick(i)] = <<>>
              /\ pickPc'[i] = "done"
      ]_vars

\* A call made with a loaded record ended on a cancelled picker.
C3_Witness ==
    \E i \in Picks :
        /\ pickPc[i] = "done"
        /\ selected[i].type = "null"
        /\ pickClosure[i] # None

\* C4: when saveSettings fails, the call leaves the in-memory record (and
\* the persisted one) as it was, emits exactly one error notification and
\* no success notification, and calls saveSettings no second time.
C4_FailedSaveChangesNothing ==
    [][\A i \in Picks :
        /\ (PickSteps(i) /\ pickPc'[i] = "saveRejected") =>
              settings' = settings /\ persisted' = persisted /\ toasts' = toasts
        /\ (PickSteps(i) /\ pickPc[i] = "saveRejected") =>
              /\ settings' = settings
              /\ persisted' = persisted
              /\ pickPc'[i] = "done"
        /\ (saveError'[i] # "") =>
              /\ saveCalls'[i] = 1
              /\ pickPc'[i] \in {"saveRejected", "done"}
              /\ toasts'[ByPick(i)] =
                    IF pickPc'[i] = "done" THEN <<ErrorToast>> ELSE <<>>
      ]_vars

\* A save failed and the call ended; the in-memory record is the one the
\* call started with.
C4_Witness ==
    \E i \in Picks :
        /\ pickPc[i] = "done"
        /\ saveError[i] = "StorageUnavailable"
        /\ settings = pickClosure[i]
        /\ settings[1].collectionPath # updatedSettings[i][1].collectionPath

\* C5: a call of handleFolderOpen never touches the in-memory or the
\* persisted record, emits nothing before the host has answered, and ends
\* with exactly one notification: the success toast if open_folder
\* succeeded, the error toast if it failed.
C5_FolderOpenOnlyNotifies ==
    [][\A k \in Opens :
        /\ OpenSteps(k) => settings' = settings /\ persisted' = persisted
        /\ toasts'[ByOpen(k)] =
              IF openPc'[k] = "done"
              THEN (IF openResult'[k] = "ok" THEN <<SuccessToast>>
                                             ELSE <<ErrorToast>>)
              ELSE <<>>
      ]_vars

\* One call ended on PathNotFound and one on success.
C5_Witness ==
    \E k, l \in Opens :
        /\ openPc[k] = "done" /\ openResult[k] = "PathNotFound"
        /\ openPc[l] = "done" /\ openResult[l] = "ok"
        /\ settings # None

\* C6: every error is caught where it arises and surfaced as an error
\* notification: no rejection goes uncaught, and a load effect that failed
\* has produced an error toast.
C6_AllErrorsCaughtAndSurfaced ==
    /\ uncaught = 0
    /\ loadPc = "failed" => \E c \in Callers : toasts[c] # <<>>
    /\ \A i \in Picks :
          (pickPc[i] = "done" /\ (selected[i] = Unset \/ saveError[i] # ""))
              => toasts[ByPick(i)] = <<ErrorToast>>
    /\ \A k \in Opens :
          (openPc[k] = "done" /\ openResult[k] # "ok")
              => toasts[ByOpen(k)] = <<ErrorToast>>

\* C7: the in-memory record is set, and the "Collection Updated" toast
\* emitted, only by the step that resumes the call after its saveSettings
\* resolved; no earlier step of the call touches the in-memory record or
\* emits a success toast, and while the save of the only call in flight is
\* pending the in-memory record is still the one the call started with.
C7_UpdateOnlyAfterSave ==
    [][\A i \in Picks :
        /\ (PickSteps(i) /\ pickPc[i] # "saveResolved") => settings' = settings
        /\ (toasts'[ByPick(i)] # toasts[ByPick(i)]
              /\ UpdatedToast \in {toasts'[ByPick(i)][n] : n \in DOMAIN toasts'[ByPick(i)]})
              => /\ pickPc[i] = "saveResolved"
                 /\ settings' = updatedSettings[i]
        /\ (pickPc'[i] \in {"dialog", "saveSettings", "saveResolved"})
              => toasts'[ByPick(i)] = <<>>
        /\ (pickPc'[i] \in {"saveSettings", "saveResolved"}
              /\ \A j \in Picks \ {i} : pickPc'[j] = "idle")
              => settings' = pickClosure'[i]
      ]_vars

\* The store has applied the save but the call has not resumed yet: the
\* in-memory record still shows the previous path.
C7_Witness ==
    \E i \in Picks :
        /\ pickPc[i] = "saveResolved"
        /\ persisted = updatedSettings[i][1]
        /\ settings = pickClosure[i]
        /\ settings[1].collectionPath # persisted.collectionPath
        /\ toasts[ByPick(i)] = <<>>

\* C8: once no operation is in flight, the in-memory record equals the
\* persisted record, also after overlapping folder picks.
C8_InMemoryEqualsPersistedAtRest ==
    (Quiescent /\ settings # None) => settings = Some(persisted)

\* C9 as stated: a call made while the in-memory record is null issues no
\* saveSettings, leaves the in-memory record alone and emits no
\* notification.
C9_NullClosureNoEffectAtAll ==
    [][\A i \in Picks :
        (pickPc'[i] # "idle" /\ pickClosure'[i] = None) =>
            /\ saveCalls'[i] = 0
            /\ PickSteps(i) => settings' = settings /\ persisted' = persisted
            /\ toasts'[ByPick(i)] = <<>>
      ]_vars

\* C9 as amended: a call made while the in-memory record is null issues no
\* saveSettings and leaves the in-memory record alone; it emits no
\* notification unless the picker itself fails, and then exactly one error
\* notification.
C9_NullClosureNoSave ==
    [][\A i \in Picks :
        (pickPc'[i] # "idle" /\ pickClosure'[i] = None) =>
            /\ saveCalls'[i] = 0
            /\ updatedSettings'[i] = None
            /\ pickPc'[i] \in {"dialog", "done"}
            /\ PickSteps(i) => settings' = settings /\ persisted' = persisted
            /\ toasts'[ByPick(i)] =
                  IF pickPc'[i] = "done" /\ selected'[i] = Unset
                  THEN <<ErrorToast>> ELSE <<>>
      ]_vars

\* A call made before the load completed got a directory after the load
\* completed, and ended without a save.
C9_Witness ==
    \E i \in Picks :
        /\ pickPc[i] = "done"
        /\ pickClosure[i] = None
        /\ selected[i].type = "string"
        /\ selected[i].value \in PickedPaths
        /\ settings # None
        /\ toasts[ByPick(i)] = <<>>

\* C10: every record passed to saveSettings has a non-empty collectionPath;
\* a picker result that is null, the empty string or not a string ends the
\* call without a save; so when the loaded collectionPath is non-empty the
\* in-memory and the persisted collectionPath are never empty.
C10_NeverSavesEmptyPath ==
    /\ \A i \in Picks :
          /\ updatedSettings[i] # None =>
                /\ updatedSettings[i][1].collectionPath # ""
                /\ selected[i].type = "string"
          /\ (pickPc[i] # "idle" /\ selected[i] # Unset
                /\ (selected[i].type # "string" \/ selected[i].value = ""))
                => saveCalls[i] = 0 /\ pickPc[i] = "done"
    /\ (loadedSettings # None /\ loadedSettings[1].collectionPath # "") =>
          /\ settings # None
          /\ settings[1].collectionPath # ""
          /\ persisted.collectionPath # ""

\* With a non-empty path loaded, the picker returned the empty string to one
\* call and an array to another, and neither saved.
C10_Witness ==
    /\ loadedSettings # None
    /\ loadedSettings[1].collectionPath # ""
    /\ \E i, j \in Picks :
          /\ pickPc[i] = "done" /\ pickClosure[i] # None
          /\ selected[i] = [type |-> "string", value |-> ""]
          /\ pickPc[j] = "done" /\ pickClosure[j] # None
          /\ selected[j].type = "array"
====
